---- MODULE Spec2Model ----
(***************************************************************************)
(* The buffer cache of kernel/bio.c: NBUF buffers hashed into NBUCKET      *)
(* bucket chains, a spinlock per bucket, one eviction spinlock, a sleep    *)
(* lock per buffer, and the operations bget/bread/bwrite/brelse/bpin/      *)
(* bunpin run by several threads.  Every spinlock critical section that    *)
(* holds a single lock is one step; locks kept across steps (the eviction  *)
(* lock, the champion bucket's lock during the scan) are state.            *)
(***************************************************************************)
EXTENDS Integers, Sequences, FiniteSets, TLC

\* ---- bounds of the model (the source has NBUCKET 13, NBUF 30) ----
NBUCKET == 2
NBUF == 2
NTHREAD == 2
MaxTicks == 1
MaxPins == 1
MaxVal == 1
MaxBlk == 2
MaxHeld == 1

Threads == 1..NTHREAD
Slots == 0..(NBUF - 1)
Buckets == 0..(NBUCKET - 1)
Devs == {0}
Blocks == 0..MaxBlk
FillBlocks == 0..NBUF
DiskBlocks == Blocks \cup FillBlocks
Vals == 0..MaxVal
NIL == -1
NoThread == 0

\* Node NBUF + k is bucket k's list head (struct bucket's `head`).
HeadOf(k) == NBUF + k
Nodes == 0..(NBUF + NBUCKET - 1)

VARIABLES
  buf,        \* buf[s]: dev, blockno, valid, refcnt, timestamp, data
  next,       \* next[n]: the `next` pointer of node n (buffer or bucket head)
  sleeplock,  \* sleeplock[s]: the thread holding buffer s's sleep lock
  bucketlock, \* bucketlock[k]: the thread holding bucket k's spinlock
  evictlock,  \* the thread holding bcache.lock
  disk,       \* disk[<<dev, blockno>>]: the device's content
  ticks,      \* the tick source
  panicked,   \* "" or the message of the panic that stopped the kernel
  pins,       \* pins[s]: bpin calls on s not yet matched by bunpin
  pc,         \* pc[t]: where thread t is
  loc,        \* loc[t]: the locals of the call thread t is in
  io,         \* io[t]: the device transfer issued by the bread thread t is in
  late,       \* history: buffers whose refcnt dropped to 0 in a bucket the
              \* running eviction scan had already visited
  script      \* the position of the fill-and-evict client in its program

vars == <<buf, next, sleeplock, bucketlock, evictlock, disk, ticks, panicked,
          pins, pc, loc, io, late, script>>

hash(dev, blockno) == (dev + blockno) % NBUCKET

NoLoc == [dev |-> 0, blockno |-> 0, b |-> NIL, cur_bucket |-> 0,
          prev_replace_buf |-> NIL, prev_bucket |-> NIL]

\* ---- the chains ----
RECURSIVE Walk(_, _)
Walk(n, fuel) ==
  IF n = NIL \/ fuel = 0 THEN <<>> ELSE <<n>> \o Walk(next[n], fuel - 1)

\* The buffers reached from bucket k's head, in chain order.
Chain(k) == Walk(next[HeadOf(k)], NBUF + 1)

SeqToSet(q) == {q[i] : i \in 1..Len(q)}

\* The first buffer of bucket k's chain with identity (dev, blockno), or NIL.
Lookup(k, dev, blockno) ==
  LET c == Chain(k)
      hits == {i \in 1..Len(c) : buf[c[i]].dev = dev /\ buf[c[i]].blockno = blockno}
  IN IF hits = {} THEN NIL
     ELSE c[CHOOSE i \in hits : \A j \in hits : i <= j]

binitNext ==
  [n \in Nodes |->
     IF n < NBUF
     THEN (IF n >= NBUCKET THEN n - NBUCKET ELSE NIL)
     ELSE LET k == n - NBUF
              mine == {s \in Slots : s % NBUCKET = k}
          IN IF mine = {} THEN NIL
             ELSE CHOOSE s \in mine : \A u \in mine : u <= s]

Init ==
  /\ buf = [s \in Slots |-> [dev |-> 0, blockno |-> 0, valid |-> FALSE,
                             refcnt |-> 0, timestamp |-> 0, data |-> 0]]
  /\ next = binitNext
  /\ sleeplock = [s \in Slots |-> NoThread]
  /\ bucketlock = [k \in Buckets |-> NoThread]
  /\ evictlock = NoThread
  /\ disk = [id \in Devs \X DiskBlocks |-> 0]
  /\ ticks = 0
  /\ panicked = ""
  /\ pins = [s \in Slots |-> 0]
  /\ pc = [t \in Threads |-> "idle"]
  /\ loc = [t \in Threads |-> NoLoc]
  /\ io = [t \in Threads |-> "none"]
  /\ late = {}
  /\ script = 0

Running == panicked = ""

\* ---- bread / bget ----
\* The identity buffer s is bound to.
Ident(s) == <<buf[s].dev, buf[s].blockno>>

\* The buffers thread t has locked (between bread's return and brelse).
HeldBy(t) == {s \in Slots : sleeplock[s] = t}

\* bread(dev, blockno) is called: bget computes the bucket.  A thread does not
\* ask for a block it already holds (it would sleep on its own lock for ever).
BreadCall(t, dev, blockno) ==
  /\ Running /\ pc[t] = "idle"
  /\ \A s \in Slots : sleeplock[s] = t => <<buf[s].dev, buf[s].blockno>> # <<dev, blockno>>
  /\ pc' = [pc EXCEPT ![t] = "lookup1"]
  /\ loc' = [loc EXCEPT ![t] = [NoLoc EXCEPT !.dev = dev, !.blockno = blockno]]
  /\ io' = [io EXCEPT ![t] = "none"]
  /\ UNCHANGED <<buf, next, sleeplock, bucketlock, evictlock, disk, ticks,
                 panicked, pins, late, script>>

\* Lookup1 that takes the first buffer of the chain, whatever its identity.
Lookup1AnyIdent(t) ==
  /\ Running /\ pc[t] = "lookup1"
  /\ LET k == hash(loc[t].dev, loc[t].blockno)
         b == next[HeadOf(k)]
     IN /\ bucketlock[k] = NoThread
        /\ IF b # NIL
           THEN /\ buf' = [buf EXCEPT ![b].refcnt = @ + 1]
                /\ loc' = [loc EXCEPT ![t].b = b]
                /\ pc' = [pc EXCEPT ![t] = "sleep"]
           ELSE /\ pc' = [pc EXCEPT ![t] = "acq_evict"]
                /\ UNCHANGED <<buf, loc>>
  /\ UNCHANGED <<next, sleeplock, bucketlock, evictlock, disk, ticks,
                 panicked, pins, io, late, script>>

\* bget lines 93-102: the first lookup, under the bucket's lock.
Lookup1(t) ==
  /\ Running /\ pc[t] = "lookup1"
  /\ LET k == hash(loc[t].dev, loc[t].blockno)
         b == Lookup(k, loc[t].dev, loc[t].blockno)
     IN /\ bucketlock[k] = NoThread
        /\ IF b # NIL
           THEN /\ buf' = [buf EXCEPT ![b].refcnt = @ + 1]
                /\ loc' = [loc EXCEPT ![t].b = b]
                /\ pc' = [pc EXCEPT ![t] = "sleep"]
           ELSE /\ pc' = [pc EXCEPT ![t] = "acq_evict"]
                /\ UNCHANGED <<buf, loc>>
  /\ UNCHANGED <<next, sleeplock, bucketlock, evictlock, disk, ticks,
                 panicked, pins, io, late, script>>

\* bget line 105: acquire(&bcache.lock).
AcqEvict(t) ==
  /\ Running /\ pc[t] = "acq_evict"
  /\ evictlock = NoThread
  /\ evictlock' = t
  /\ pc' = [pc EXCEPT ![t] = "lookup2"]
  /\ UNCHANGED <<buf, next, sleeplock, bucketlock, disk, ticks, panicked,
                 pins, loc, io, late, script>>

\* Lookup2 without the re-check: the miss path goes straight to the scan.
Lookup2NoRecheck(t) ==
  /\ Running /\ pc[t] = "lookup2"
  /\ bucketlock[hash(loc[t].dev, loc[t].blockno)] = NoThread
  /\ pc' = [pc EXCEPT ![t] = "scan"]
  /\ UNCHANGED <<buf, loc, evictlock, next, sleeplock, bucketlock, disk, ticks,
                 panicked, pins, io, late, script>>

\* Lookup2 whose hit does not count the new reference (no `b->refcnt++`).
Lookup2NoRef(t) ==
  /\ Running /\ pc[t] = "lookup2"
  /\ LET k == hash(loc[t].dev, loc[t].blockno)
         b == Lookup(k, loc[t].dev, loc[t].blockno)
     IN /\ bucketlock[k] = NoThread
        /\ IF b # NIL
           THEN /\ loc' = [loc EXCEPT ![t].b = b]
                /\ evictlock' = NoThread
                /\ pc' = [pc EXCEPT ![t] = "sleep"]
                /\ UNCHANGED buf
           ELSE /\ pc' = [pc EXCEPT ![t] = "scan"]
                /\ UNCHANGED <<buf, loc, evictlock>>
  /\ UNCHANGED <<next, sleeplock, bucketlock, disk, ticks, panicked, pins, io, late, script>>

\* Lookup2 that gives bcache.lock back after a miss, before the scan.
Lookup2DropEvict(t) ==
  /\ Running /\ pc[t] = "lookup2"
  /\ LET k == hash(loc[t].dev, loc[t].blockno)
         b == Lookup(k, loc[t].dev, loc[t].blockno)
     IN /\ bucketlock[k] = NoThread
        /\ IF b # NIL
           THEN /\ buf' = [buf EXCEPT ![b].refcnt = @ + 1]
                /\ loc' = [loc EXCEPT ![t].b = b]
                /\ pc' = [pc EXCEPT ![t] = "sleep"]
           ELSE /\ pc' = [pc EXCEPT ![t] = "scan"]
                /\ UNCHANGED <<buf, loc>>
        /\ evictlock' = NoThread
  /\ UNCHANGED <<next, sleeplock, bucketlock, disk, ticks, panicked, pins, io, late, script>>

\* bget lines 111-127: the second lookup, under the eviction lock.
Lookup2(t) ==
  /\ Running /\ pc[t] = "lookup2"
  /\ LET k == hash(loc[t].dev, loc[t].blockno)
         b == Lookup(k, loc[t].dev, loc[t].blockno)
     IN /\ bucketlock[k] = NoThread
        /\ IF b # NIL
           THEN /\ buf' = [buf EXCEPT ![b].refcnt = @ + 1]
                /\ loc' = [loc EXCEPT ![t].b = b]
                /\ evictlock' = NoThread
                /\ pc' = [pc EXCEPT ![t] = "sleep"]
           ELSE /\ pc' = [pc EXCEPT ![t] = "scan"]
                /\ UNCHANGED <<buf, loc, evictlock>>
  /\ UNCHANGED <<next, sleeplock, bucketlock, disk, ticks, panicked, pins, io, late, script>>

\* ScanChain without the refcnt test: any buffer may become the champion.
RECURSIVE ScanChainAnyRef(_, _, _, _)
ScanChainAnyRef(b, prb, found, fuel) ==
  IF next[b] = NIL \/ fuel = 0 THEN [prev_replace_buf |-> prb, found |-> found]
  ELSE IF prb = NIL \/ buf[next[b]].timestamp < buf[next[prb]].timestamp
       THEN ScanChainAnyRef(next[b], b, TRUE, fuel - 1)
       ELSE ScanChainAnyRef(next[b], prb, found, fuel - 1)

\* ScanChain with the comparison reversed: the newest free buffer wins.
RECURSIVE ScanChainNewest(_, _, _, _)
ScanChainNewest(b, prb, found, fuel) ==
  IF next[b] = NIL \/ fuel = 0 THEN [prev_replace_buf |-> prb, found |-> found]
  ELSE IF /\ buf[next[b]].refcnt = 0
          /\ (prb = NIL \/ buf[next[b]].timestamp > buf[next[prb]].timestamp)
       THEN ScanChainNewest(next[b], b, TRUE, fuel - 1)
       ELSE ScanChainNewest(next[b], prb, found, fuel - 1)

\* ScanChain with <= for <: among equal timestamps the last buffer met wins.
RECURSIVE ScanChainLastTie(_, _, _, _)
ScanChainLastTie(b, prb, found, fuel) ==
  IF next[b] = NIL \/ fuel = 0 THEN [prev_replace_buf |-> prb, found |-> found]
  ELSE IF /\ buf[next[b]].refcnt = 0
          /\ (prb = NIL \/ buf[next[b]].timestamp <= buf[next[prb]].timestamp)
       THEN ScanChainLastTie(next[b], b, TRUE, fuel - 1)
       ELSE ScanChainLastTie(next[b], prb, found, fuel - 1)

\* bget lines 131-137: the walk over one chain; b is the node whose successor is
\* examined, prb the predecessor of the champion so far.
RECURSIVE ScanChain(_, _, _, _)
ScanChain(b, prb, found, fuel) ==
  IF next[b] = NIL \/ fuel = 0 THEN [prev_replace_buf |-> prb, found |-> found]
  ELSE IF /\ buf[next[b]].refcnt = 0
          /\ (prb = NIL \/ buf[next[b]].timestamp < buf[next[prb]].timestamp)
       THEN ScanChain(next[b], b, TRUE, fuel - 1)
       ELSE ScanChain(next[b], prb, found, fuel - 1)

\* bget line 129: acquire(&cur_bucket->lock).
ScanAcquire(t) ==
  /\ Running /\ pc[t] = "scan"
  /\ bucketlock[loc[t].cur_bucket] = NoThread
  /\ bucketlock' = [bucketlock EXCEPT ![loc[t].cur_bucket] = t]
  /\ pc' = [pc EXCEPT ![t] = "scanned"]
  /\ UNCHANGED <<buf, next, sleeplock, evictlock, disk, ticks, panicked,
                 pins, loc, io, late, script>>

\* ScanBucket that keeps the previous champion's bucket locked (no line 143).
ScanBucketKeepPrev(t) ==
  /\ Running /\ pc[t] = "scanned"
  /\ LET cur == loc[t].cur_bucket
         r == ScanChain(HeadOf(cur), loc[t].prev_replace_buf, FALSE, NBUF + 1)
     IN IF ~r.found
        THEN /\ bucketlock' = [bucketlock EXCEPT ![cur] = NoThread]
             /\ loc' = [loc EXCEPT ![t].cur_bucket = cur + 1]
        ELSE /\ bucketlock' = bucketlock
             /\ loc' = [loc EXCEPT ![t].cur_bucket = cur + 1,
                                   ![t].prev_replace_buf = r.prev_replace_buf,
                                   ![t].prev_bucket = cur]
  /\ pc' = [pc EXCEPT ![t] = IF loc[t].cur_bucket + 1 < NBUCKET THEN "scan" ELSE "check"]
  /\ UNCHANGED <<buf, next, sleeplock, evictlock, disk, ticks, panicked,
                 pins, io, late, script>>

\* bget lines 128, 130-147: scan the locked chain, then keep or drop its lock;
\* the loop ends after the last bucket.
ScanBucket(t) ==
  /\ Running /\ pc[t] = "scanned"
  /\ LET cur == loc[t].cur_bucket
         r == ScanChain(HeadOf(cur), loc[t].prev_replace_buf, FALSE, NBUF + 1)
     IN IF ~r.found
        THEN /\ bucketlock' = [bucketlock EXCEPT ![cur] = NoThread]
             /\ loc' = [loc EXCEPT ![t].cur_bucket = cur + 1]
        ELSE /\ bucketlock' = IF loc[t].prev_bucket # NIL
                              THEN [bucketlock EXCEPT ![loc[t].prev_bucket] = NoThread]
                              ELSE bucketlock
             /\ loc' = [loc EXCEPT ![t].cur_bucket = cur + 1,
                                   ![t].prev_replace_buf = r.prev_replace_buf,
                                   ![t].prev_bucket = cur]
  /\ pc' = [pc EXCEPT ![t] = IF loc[t].cur_bucket + 1 < NBUCKET THEN "scan" ELSE "check"]
  /\ UNCHANGED <<buf, next, sleeplock, evictlock, disk, ticks, panicked,
                 pins, io, late, script>>

\* Check that starts the scan again instead of panicking.
CheckRetry(t) ==
  /\ Running /\ pc[t] = "check"
  /\ LET prb == loc[t].prev_replace_buf
         k == hash(loc[t].dev, loc[t].blockno)
     IN IF prb = NIL
        THEN /\ pc' = [pc EXCEPT ![t] = "scan"]
             /\ loc' = [loc EXCEPT ![t].cur_bucket = 0]
             /\ UNCHANGED <<next, bucketlock, panicked>>
        ELSE /\ panicked' = panicked
             /\ pc' = [pc EXCEPT ![t] = "bind"]
             /\ IF loc[t].prev_bucket # k
                THEN /\ next' = [next EXCEPT ![prb] = next[next[prb]]]
                     /\ bucketlock' = [bucketlock EXCEPT ![loc[t].prev_bucket] = NoThread]
                     /\ loc' = [loc EXCEPT ![t].b = next[prb]]
                ELSE /\ loc' = [loc EXCEPT ![t].b = next[prb]]
                     /\ UNCHANGED <<next, bucketlock>>
  /\ UNCHANGED <<buf, sleeplock, evictlock, disk, ticks, pins, io, late, script>>

\* Check without the unlink of line 156: the buffer stays in its old chain.
CheckNoUnlink(t) ==
  /\ Running /\ pc[t] = "check"
  /\ LET prb == loc[t].prev_replace_buf
         k == hash(loc[t].dev, loc[t].blockno)
     IN IF prb = NIL
        THEN /\ panicked' = "bget: no buffers"
             /\ UNCHANGED <<next, bucketlock, loc, pc>>
        ELSE /\ panicked' = panicked
             /\ pc' = [pc EXCEPT ![t] = "bind"]
             /\ loc' = [loc EXCEPT ![t].b = next[prb]]
             /\ bucketlock' = IF loc[t].prev_bucket # k
                              THEN [bucketlock EXCEPT ![loc[t].prev_bucket] = NoThread]
                              ELSE bucketlock
             /\ UNCHANGED next
  /\ UNCHANGED <<buf, sleeplock, evictlock, disk, ticks, pins, io, late, script>>

\* bget lines 149-157: panic when nothing was found; otherwise take the champion
\* and, when it sits in another bucket, unlink it and drop that bucket's lock.
Check(t) ==
  /\ Running /\ pc[t] = "check"
  /\ LET prb == loc[t].prev_replace_buf
         k == hash(loc[t].dev, loc[t].blockno)
     IN IF prb = NIL
        THEN /\ panicked' = "bget: no buffers"
             /\ UNCHANGED <<next, bucketlock, loc, pc>>
        ELSE /\ panicked' = panicked
             /\ pc' = [pc EXCEPT ![t] = "bind"]
             /\ IF loc[t].prev_bucket # k
                THEN /\ next' = [next EXCEPT ![prb] = next[next[prb]]]
                     /\ bucketlock' = [bucketlock EXCEPT ![loc[t].prev_bucket] = NoThread]
                     /\ loc' = [loc EXCEPT ![t].b = next[prb]]
                ELSE /\ loc' = [loc EXCEPT ![t].b = next[prb]]
                     /\ UNCHANGED <<next, bucketlock>>
  /\ UNCHANGED <<buf, sleeplock, evictlock, disk, ticks, pins, io, late, script>>

\* Bind without `b->valid = 0`: the rebound buffer keeps its valid flag.
BindKeepValid(t) ==
  /\ Running /\ pc[t] = "bind"
  /\ LET b == loc[t].b
         k == hash(loc[t].dev, loc[t].blockno)
     IN /\ IF loc[t].prev_bucket # k
           THEN /\ bucketlock[k] = NoThread
                /\ next' = [next EXCEPT ![b] = next[HeadOf(k)], ![HeadOf(k)] = b]
           ELSE UNCHANGED next
        /\ buf' = [buf EXCEPT ![b].dev = loc[t].dev, ![b].blockno = loc[t].blockno,
                              ![b].refcnt = 1]
        /\ bucketlock' = [bucketlock EXCEPT ![k] = NoThread]
  /\ evictlock' = NoThread
  /\ pc' = [pc EXCEPT ![t] = "sleep"]
  /\ late' = {}
  /\ UNCHANGED <<sleeplock, disk, ticks, panicked, pins, loc, io, script>>

\* Bind that keeps bcache.lock while the caller goes to sleep on the buffer
\* (no line 171).
BindKeepEvict(t) ==
  /\ Running /\ pc[t] = "bind"
  /\ LET b == loc[t].b
         k == hash(loc[t].dev, loc[t].blockno)
     IN /\ IF loc[t].prev_bucket # k
           THEN /\ bucketlock[k] = NoThread
                /\ next' = [next EXCEPT ![b] = next[HeadOf(k)], ![HeadOf(k)] = b]
           ELSE UNCHANGED next
        /\ buf' = [buf EXCEPT ![b].dev = loc[t].dev, ![b].blockno = loc[t].blockno,
                              ![b].refcnt = 1, ![b].valid = FALSE]
        /\ bucketlock' = [bucketlock EXCEPT ![k] = NoThread]
  /\ pc' = [pc EXCEPT ![t] = "sleep"]
  /\ late' = {}
  /\ UNCHANGED <<sleeplock, evictlock, disk, ticks, panicked, pins, loc, io, script>>

\* Bind without the splice of lines 160-161: a moved buffer stays unlinked.
BindNoSplice(t) ==
  /\ Running /\ pc[t] = "bind"
  /\ LET b == loc[t].b
         k == hash(loc[t].dev, loc[t].blockno)
     IN /\ loc[t].prev_bucket # k => bucketlock[k] = NoThread
        /\ buf' = [buf EXCEPT ![b].dev = loc[t].dev, ![b].blockno = loc[t].blockno,
                              ![b].refcnt = 1, ![b].valid = FALSE]
        /\ bucketlock' = [bucketlock EXCEPT ![k] = NoThread]
  /\ evictlock' = NoThread
  /\ pc' = [pc EXCEPT ![t] = "sleep"]
  /\ late' = {}
  /\ UNCHANGED <<next, sleeplock, disk, ticks, panicked, pins, loc, io, script>>

\* bget lines 159-171: (after a move) lock the target bucket and splice the
\* buffer at its head; rebind the buffer; release the bucket and eviction locks.
Bind(t) ==
  /\ Running /\ pc[t] = "bind"
  /\ LET b == loc[t].b
         k == hash(loc[t].dev, loc[t].blockno)
     IN /\ IF loc[t].prev_bucket # k
           THEN /\ bucketlock[k] = NoThread
                /\ next' = [next EXCEPT ![b] = next[HeadOf(k)], ![HeadOf(k)] = b]
           ELSE UNCHANGED next
        /\ buf' = [buf EXCEPT ![b].dev = loc[t].dev, ![b].blockno = loc[t].blockno,
                              ![b].refcnt = 1, ![b].valid = FALSE]
        /\ bucketlock' = [bucketlock EXCEPT ![k] = NoThread]
  /\ evictlock' = NoThread
  /\ pc' = [pc EXCEPT ![t] = "sleep"]
  /\ late' = {}
  /\ UNCHANGED <<sleeplock, disk, ticks, panicked, pins, loc, io, script>>

\* bget lines 98, 117, 172: acquiresleep(&b->lock), then return b.
AcquireSleep(t) ==
  /\ Running /\ pc[t] = "sleep"
  /\ sleeplock[loc[t].b] = NoThread
  /\ sleeplock' = [sleeplock EXCEPT ![loc[t].b] = t]
  /\ pc' = [pc EXCEPT ![t] = "bread_valid"]
  /\ UNCHANGED <<buf, next, bucketlock, evictlock, disk, ticks, panicked,
                 pins, loc, io, late, script>>

\* bread lines 184-188: load the buffer from the device when it is not valid.
BreadReturn(t) ==
  /\ Running /\ pc[t] = "bread_valid"
  /\ LET b == loc[t].b
     IN IF ~buf[b].valid
        THEN /\ buf' = [buf EXCEPT ![b].data = disk[<<buf[b].dev, buf[b].blockno>>],
                                   ![b].valid = TRUE]
             /\ io' = [io EXCEPT ![t] = "read"]
        ELSE UNCHANGED <<buf, io>>
  /\ pc' = [pc EXCEPT ![t] = "returned"]
  /\ UNCHANGED <<next, sleeplock, bucketlock, evictlock, disk, ticks, panicked,
                 pins, loc, late, script>>

\* bread line 188: the caller has the locked buffer.
BreadDone(t) ==
  /\ Running /\ pc[t] = "returned"
  /\ pc' = [pc EXCEPT ![t] = "idle"]
  /\ loc' = [loc EXCEPT ![t] = NoLoc]
  /\ io' = [io EXCEPT ![t] = "none"]
  /\ UNCHANGED <<buf, next, sleeplock, bucketlock, evictlock, disk, ticks,
                 panicked, pins, late, script>>

\* A client that holds b's sleep lock changes the payload; as the interface
\* asks (lines 10-11), it calls bwrite next, before it releases the buffer.
WriteData(t, b, v) ==
  /\ Running /\ pc[t] = "idle"
  /\ sleeplock[b] = t
  /\ buf[b].data # v
  /\ buf' = [buf EXCEPT ![b].data = v]
  /\ pc' = [pc EXCEPT ![t] = "wrote"]
  /\ loc' = [loc EXCEPT ![t].b = b]
  /\ UNCHANGED <<next, sleeplock, bucketlock, evictlock, disk, ticks, panicked,
                 pins, io, late, script>>

\* bwrite that writes to the device before it checks the lock.
bwriteThenCheck(t, b) ==
  /\ Running
  /\ pc[t] = "idle" \/ (pc[t] = "wrote" /\ loc[t].b = b)
  /\ disk' = [disk EXCEPT ![<<buf[b].dev, buf[b].blockno>>] = buf[b].data]
  /\ IF sleeplock[b] # t
     THEN /\ panicked' = "bwrite"
          /\ UNCHANGED <<pc, loc>>
     ELSE /\ pc' = [pc EXCEPT ![t] = "idle"]
          /\ loc' = [loc EXCEPT ![t] = NoLoc]
          /\ UNCHANGED panicked
  /\ UNCHANGED <<buf, next, sleeplock, bucketlock, evictlock, ticks, pins, io, late, script>>

\* bwrite lines 192-198.
bwrite(t, b) ==
  /\ Running
  /\ pc[t] = "idle" \/ (pc[t] = "wrote" /\ loc[t].b = b)
  /\ IF sleeplock[b] # t
     THEN /\ panicked' = "bwrite"
          /\ UNCHANGED <<disk, pc, loc>>
     ELSE /\ disk' = [disk EXCEPT ![<<buf[b].dev, buf[b].blockno>>] = buf[b].data]
          /\ pc' = [pc EXCEPT ![t] = "idle"]
          /\ loc' = [loc EXCEPT ![t] = NoLoc]
          /\ UNCHANGED panicked
  /\ UNCHANGED <<buf, next, sleeplock, bucketlock, evictlock, ticks, pins, io, late, script>>

\* Some thread's eviction scan has already visited bucket k (and has not yet
\* rebound its champion).
ScanPassed(k) ==
  \E u \in Threads : pc[u] \in {"scan", "scanned", "check", "bind"} /\ k < loc[u].cur_bucket

\* brelse lines 202-208: the check and releasesleep.
brelse(t, b) ==
  /\ Running /\ pc[t] = "idle"
  /\ IF sleeplock[b] # t
     THEN /\ panicked' = "brelse"
          /\ UNCHANGED <<sleeplock, pc, loc>>
     ELSE /\ sleeplock' = [sleeplock EXCEPT ![b] = NoThread]
          /\ pc' = [pc EXCEPT ![t] = "brelse_cs"]
          /\ loc' = [loc EXCEPT ![t].b = b]
          /\ UNCHANGED panicked
  /\ UNCHANGED <<buf, next, bucketlock, evictlock, disk, ticks, pins, io, late, script>>

\* brelseUnref without the stamp of line 214.
brelseUnrefNoStamp(t) ==
  /\ Running /\ pc[t] = "brelse_cs"
  /\ LET b == loc[t].b
         index == hash(buf[b].dev, buf[b].blockno)
     IN /\ bucketlock[index] = NoThread
        /\ buf' = [buf EXCEPT ![b].refcnt = @ - 1]
        /\ late' = IF buf[b].refcnt - 1 = 0 /\ ScanPassed(index)
                   THEN late \cup {b} ELSE late
  /\ pc' = [pc EXCEPT ![t] = "idle"]
  /\ loc' = [loc EXCEPT ![t] = NoLoc]
  /\ UNCHANGED <<next, sleeplock, bucketlock, evictlock, disk, ticks, panicked,
                 pins, io, script>>

\* brelse lines 210-216: the reference is dropped under the bucket's lock.
brelseUnref(t) ==
  /\ Running /\ pc[t] = "brelse_cs"
  /\ LET b == loc[t].b
         index == hash(buf[b].dev, buf[b].blockno)
     IN /\ bucketlock[index] = NoThread
        /\ buf' = [buf EXCEPT ![b].refcnt = @ - 1,
                              ![b].timestamp = IF buf[b].refcnt - 1 = 0 THEN ticks ELSE @]
        /\ late' = IF buf[b].refcnt - 1 = 0 /\ ScanPassed(index)
                   THEN late \cup {b} ELSE late
  /\ pc' = [pc EXCEPT ![t] = "idle"]
  /\ loc' = [loc EXCEPT ![t] = NoLoc]
  /\ UNCHANGED <<next, sleeplock, bucketlock, evictlock, disk, ticks, panicked,
                 pins, io, script>>

\* bpin lines 219-225, called by a client that holds the buffer.
bpin(t, b) ==
  /\ Running /\ pc[t] = "idle"
  /\ sleeplock[b] = t
  /\ pins[b] < MaxPins
  /\ bucketlock[hash(buf[b].dev, buf[b].blockno)] = NoThread
  /\ buf' = [buf EXCEPT ![b].refcnt = @ + 1]
  /\ pins' = [pins EXCEPT ![b] = @ + 1]
  /\ UNCHANGED <<next, sleeplock, bucketlock, evictlock, disk, ticks, panicked,
                 pc, loc, io, late, script>>

\* bunpin lines 227-233, called for a buffer that was pinned.
bunpin(t, b) ==
  /\ Running /\ pc[t] = "idle"
  /\ pins[b] > 0
  /\ bucketlock[hash(buf[b].dev, buf[b].blockno)] = NoThread
  /\ buf' = [buf EXCEPT ![b].refcnt = @ - 1]
  /\ pins' = [pins EXCEPT ![b] = @ - 1]
  /\ late' = IF buf[b].refcnt = 1 /\ ScanPassed(hash(buf[b].dev, buf[b].blockno))
             THEN late \cup {b} ELSE late
  /\ UNCHANGED <<next, sleeplock, bucketlock, evictlock, disk, ticks, panicked,
                 pc, loc, io, script>>

\* The timer interrupt advances the tick source (up to max in the model).
Tick(max) ==
  /\ Running /\ ticks < max
  /\ ticks' = ticks + 1
  /\ UNCHANGED <<buf, next, sleeplock, bucketlock, evictlock, disk, panicked,
                 pins, pc, loc, io, late, script>>

Next ==
  \/ \E t \in Threads, dev \in Devs, blockno \in Blocks :
       Cardinality(HeldBy(t)) < MaxHeld /\ BreadCall(t, dev, blockno)
  \/ \E t \in Threads : Lookup1(t)
  \/ \E t \in Threads : AcqEvict(t)
  \/ \E t \in Threads : Lookup2(t)
  \/ \E t \in Threads : ScanAcquire(t)
  \/ \E t \in Threads : ScanBucket(t)
  \/ \E t \in Threads : Check(t)
  \/ \E t \in Threads : Bind(t)
  \/ \E t \in Threads : AcquireSleep(t)
  \/ \E t \in Threads : BreadReturn(t)
  \/ \E t \in Threads : BreadDone(t)
  \/ \E t \in Threads, b \in Slots : bwrite(t, b)
  \/ \E t \in Threads, b \in Slots : brelse(t, b)
  \/ \E t \in Threads : brelseUnref(t)
  \/ \E t \in Threads, b \in Slots : bpin(t, b)
  \/ \E t \in Threads, b \in Slots : bunpin(t, b)
  \/ Tick(MaxTicks)

Spec == Init /\ [][Next]_vars

\* The threads as clients that read, change and flush the payload of the
\* buffers they hold (no pins, the tick source standing still).
NextData ==
  \/ \E t \in Threads, dev \in Devs, blockno \in Blocks :
       Cardinality(HeldBy(t)) < MaxHeld /\ BreadCall(t, dev, blockno)
  \/ \E t \in Threads : Lookup1(t)
  \/ \E t \in Threads : AcqEvict(t)
  \/ \E t \in Threads : Lookup2(t)
  \/ \E t \in Threads : ScanAcquire(t)
  \/ \E t \in Threads : ScanBucket(t)
  \/ \E t \in Threads : Check(t)
  \/ \E t \in Threads : Bind(t)
  \/ \E t \in Threads : AcquireSleep(t)
  \/ \E t \in Threads : BreadReturn(t)
  \/ \E t \in Threads : BreadDone(t)
  \/ \E t \in Threads, b \in Slots, v \in Vals : WriteData(t, b, v)
  \/ \E t \in Threads, b \in Slots : bwrite(t, b)
  \/ \E t \in Threads, b \in Slots : brelse(t, b)
  \/ \E t \in Threads : brelseUnref(t)

SpecData == Init /\ [][NextData]_vars

\* ---- the calls as the scheduler sees them: progress ----
\* bpin and bunpin in two steps, the call and the critical section, so that a
\* caller waiting for the bucket lock is a state of its own.
bpinCall(t, b) ==
  /\ Running /\ pc[t] = "idle"
  /\ sleeplock[b] = t
  /\ pins[b] < MaxPins
  /\ pc' = [pc EXCEPT ![t] = "bpin_cs"]
  /\ loc' = [loc EXCEPT ![t].b = b]
  /\ UNCHANGED <<buf, next, sleeplock, bucketlock, evictlock, disk, ticks,
                 panicked, pins, io, late, script>>

\* bpin lines 221-224.
bpinLocked(t) ==
  /\ Running /\ pc[t] = "bpin_cs"
  /\ LET b == loc[t].b
     IN /\ bucketlock[hash(buf[b].dev, buf[b].blockno)] = NoThread
        /\ buf' = [buf EXCEPT ![b].refcnt = @ + 1]
        /\ pins' = [pins EXCEPT ![b] = @ + 1]
  /\ pc' = [pc EXCEPT ![t] = "idle"]
  /\ loc' = [loc EXCEPT ![t] = NoLoc]
  /\ UNCHANGED <<next, sleeplock, bucketlock, evictlock, disk, ticks, panicked,
                 io, late, script>>

\* bunpin is called for a pin no other caller is already taking off.
bunpinCall(t, b) ==
  /\ Running /\ pc[t] = "idle"
  /\ pins[b] > Cardinality({u \in Threads : pc[u] = "bunpin_cs" /\ loc[u].b = b})
  /\ pc' = [pc EXCEPT ![t] = "bunpin_cs"]
  /\ loc' = [loc EXCEPT ![t].b = b]
  /\ UNCHANGED <<buf, next, sleeplock, bucketlock, evictlock, disk, ticks,
                 panicked, pins, io, late, script>>

\* bunpin lines 229-232.
bunpinLocked(t) ==
  /\ Running /\ pc[t] = "bunpin_cs"
  /\ LET b == loc[t].b
         index == hash(buf[b].dev, buf[b].blockno)
     IN /\ bucketlock[index] = NoThread
        /\ buf' = [buf EXCEPT ![b].refcnt = @ - 1]
        /\ pins' = [pins EXCEPT ![b] = @ - 1]
        /\ late' = IF buf[b].refcnt = 1 /\ ScanPassed(index)
                   THEN late \cup {b} ELSE late
  /\ pc' = [pc EXCEPT ![t] = "idle"]
  /\ loc' = [loc EXCEPT ![t] = NoLoc]
  /\ UNCHANGED <<next, sleeplock, bucketlock, evictlock, disk, ticks, panicked,
                 io, script>>

\* The steps of thread t inside a call: what the scheduler runs.
ThreadStep(t) ==
  \/ Lookup1(t)
  \/ AcqEvict(t)
  \/ Lookup2(t)
  \/ ScanAcquire(t)
  \/ ScanBucket(t)
  \/ Check(t)
  \/ Bind(t)
  \/ AcquireSleep(t)
  \/ BreadReturn(t)
  \/ BreadDone(t)
  \/ brelseUnref(t)
  \/ bpinLocked(t)
  \/ bunpinLocked(t)

\* The client of thread t gives back a buffer it holds.
Release(t) == \E b \in Slots : sleeplock[b] = t /\ brelse(t, b)

\* Clients that keep the contract: they hold one buffer at a time.
NextLive ==
  \/ \E t \in Threads, dev \in Devs, blockno \in Blocks :
       Cardinality(HeldBy(t)) < MaxHeld /\ BreadCall(t, dev, blockno)
  \/ \E t \in Threads : ThreadStep(t)
  \/ \E t \in Threads : Release(t)
  \/ \E t \in Threads, b \in Slots : bpinCall(t, b)
  \/ \E t \in Threads, b \in Slots : bunpinCall(t, b)

\* Fair scheduling: a step of a thread that is enabled again and again is taken
\* (a spinning or sleeping thread gets the lock in the end), and a client that
\* holds a buffer calls brelse in the end.
SpecLive ==
  /\ Init /\ [][NextLive]_vars
  /\ \A t \in Threads : SF_vars(ThreadStep(t)) /\ SF_vars(Release(t))

\* ---- the fill-and-evict client: one thread, in program order ----
\* bread (0,0) .. (0,NBUF-1); brelse each in that order, the tick strictly
\* larger at each release; bread (0,NBUF); bread (0,0).
Me == 1
FillTicks == NBUF + 1
Holding(blockno) ==
  \E s \in Slots : sleeplock[s] = Me /\ Ident(s) = <<0, blockno>>

FillCall ==
  /\ script < NBUF /\ ~Holding(script)
  /\ BreadCall(Me, 0, script)

FillRelease ==
  /\ script \in NBUF..(2 * NBUF - 1)
  /\ \E s \in Slots :
       /\ Ident(s) = <<0, script - NBUF>>
       /\ \A s2 \in Slots :
            Ident(s2) = <<0, script - NBUF - 1>> => ticks > buf[s2].timestamp
       /\ sleeplock[s] = Me
       /\ brelse(Me, s)

EvictCall ==
  /\ script = 2 * NBUF /\ ~Holding(NBUF)
  /\ BreadCall(Me, 0, NBUF)

ReloadCall ==
  /\ script = 2 * NBUF + 1 /\ ~Holding(0)
  /\ BreadCall(Me, 0, 0)

\* The client's previous call has returned: it goes on to its next one.
FillAdvance ==
  /\ Running /\ pc[Me] = "idle"
  /\ \/ script < NBUF /\ Holding(script)
     \/ script \in NBUF..(2 * NBUF - 1) /\ ~Holding(script - NBUF)
     \/ script = 2 * NBUF /\ Holding(NBUF)
  /\ script' = script + 1
  /\ UNCHANGED <<buf, next, sleeplock, bucketlock, evictlock, disk, ticks,
                 panicked, pins, pc, loc, io, late>>

NextFill ==
  \/ FillCall
  \/ FillRelease
  \/ EvictCall
  \/ ReloadCall
  \/ FillAdvance
  \/ Lookup1(Me)
  \/ AcqEvict(Me)
  \/ Lookup2(Me)
  \/ ScanAcquire(Me)
  \/ ScanBucket(Me)
  \/ Check(Me)
  \/ Bind(Me)
  \/ AcquireSleep(Me)
  \/ BreadReturn(Me)
  \/ BreadDone(Me)
  \/ brelseUnref(Me)
  \/ Tick(FillTicks)

SpecFill == Init /\ [][NextFill]_vars

\* ---- the claims ----

\* C1 (as stated): for every identity some buffer with refcnt > 0 carries, at
\* most one buffer of the whole pool carries that identity.
Uniqueness ==
  \A s1, s2 \in Slots :
    (buf[s1].refcnt > 0 /\ Ident(s1) = Ident(s2)) => s1 = s2

\* C2: no two threads hold locked buffers of the same identity, and a buffer's
\* sleep lock leaves its holder only through that holder's brelse, so a thread
\* sleeping on it stays blocked until then.
MutualExclusion ==
  /\ [](\A s1, s2 \in Slots :
         (/\ sleeplock[s1] # NoThread /\ sleeplock[s2] # NoThread
          /\ Ident(s1) = Ident(s2)) => s1 = s2)
  /\ [][\A s \in Slots :
         (sleeplock[s] # NoThread /\ sleeplock'[s] # sleeplock[s]) =>
           /\ sleeplock'[s] = NoThread
           /\ pc[sleeplock[s]] = "idle" /\ pc'[sleeplock[s]] = "brelse_cs"
           /\ loc'[sleeplock[s]].b = s]_vars

\* C2 witness: one thread holds a buffer and another sleeps on the same buffer.
MutualExclusionWitness ==
  \E t1, t2 \in Threads, s \in Slots :
    /\ t1 # t2 /\ sleeplock[s] = t1
    /\ pc[t2] = "sleep" /\ loc[t2].b = s
    /\ <<loc[t2].dev, loc[t2].blockno>> = Ident(s)

\* C3 (as stated): while a buffer's refcnt is positive neither its identity nor
\* its valid flag changes.
NoChangeWhileReferenced ==
  [][\A s \in Slots :
       buf[s].refcnt > 0 =>
         /\ Ident(s)' = Ident(s)
         /\ buf'[s].valid = buf[s].valid]_vars

\* C3 (amended): bget rebinds only a buffer whose refcnt is 0; while a buffer's
\* refcnt is positive its identity does not change and its valid flag is never
\* cleared (bread sets it once the payload is loaded).
NoEvictionOfLive ==
  /\ [](\A t \in Threads : pc[t] = "bind" => buf[loc[t].b].refcnt = 0)
  /\ [][\A s \in Slots :
         buf[s].refcnt > 0 =>
           /\ Ident(s)' = Ident(s)
           /\ (buf[s].valid => buf'[s].valid)]_vars

\* C3 witness: bget is about to rebind its champion while another buffer is
\* pinned and not locked by any client.
NoEvictionOfLiveWitness ==
  \E t \in Threads, s \in Slots :
    /\ pc[t] = "bind" /\ s # loc[t].b
    /\ pins[s] > 0 /\ sleeplock[s] = NoThread /\ buf[s].valid

\* The free buffer with the smallest timestamp, as the moment of rebinding sees it.
IsOldestFree(b, among) ==
  /\ buf[b].refcnt = 0
  /\ \A s \in among : buf[s].refcnt = 0 => buf[b].timestamp <= buf[s].timestamp

\* C4 (as stated): the buffer bget rebinds has, when it is rebound, the smallest
\* timestamp among all buffers whose refcnt is 0.
LRUAtRebind ==
  [][\A t \in Threads :
       (pc[t] = "bind" /\ pc'[t] = "sleep") => IsOldestFree(loc[t].b, Slots)]_vars

\* C4 (amended): the rebound buffer has refcnt 0 and the smallest timestamp among
\* the buffers whose refcnt is 0, except those whose refcnt dropped to 0 (in
\* brelse or bunpin) after the scan had visited their bucket.
LRUAtRebindButLate ==
  [][\A t \in Threads :
       (pc[t] = "bind" /\ pc'[t] = "sleep") => IsOldestFree(loc[t].b, Slots \ late)]_vars

\* C4 witness: bget is about to rebind a buffer that is older than another free
\* buffer, both released by brelse.
LRUAtRebindWitness ==
  \E t \in Threads, s \in Slots :
    /\ pc[t] = "bind" /\ s # loc[t].b /\ late = {}
    /\ buf[s].refcnt = 0 /\ buf[s].valid /\ buf[loc[t].b].valid
    /\ buf[loc[t].b].timestamp < buf[s].timestamp

\* C5: the buffer bread returns is valid and its payload is the device's content
\* of its block, which is what the last bwrite of that block flushed: written,
\* flushed and released payload comes back, from the cache or from the device;
\* the device changes only in bwrite, to the payload of the flushed buffer.
RoundTrip ==
  /\ [](\A t \in Threads :
         pc[t] = "returned" =>
           /\ buf[loc[t].b].valid
           /\ buf[loc[t].b].data = disk[<<loc[t].dev, loc[t].blockno>>])
  /\ [][disk' # disk =>
         \E t \in Threads, b \in Slots :
           /\ sleeplock[b] = t /\ pc[t] = "wrote"
           /\ disk' = [disk EXCEPT ![Ident(b)] = buf[b].data]]_vars

\* C5 witness: bread has just loaded from the device, into a buffer other
\* blocks had taken meanwhile, a payload that a client wrote and flushed before.
RoundTripWitness ==
  \E t \in Threads :
    /\ pc[t] = "returned" /\ io[t] = "read"
    /\ buf[loc[t].b].data # 0
    /\ \E id \in Devs \X Blocks : id # Ident(loc[t].b) /\ disk[id] # buf[loc[t].b].data

\* C6: when bread returns, the buffer carries the requested identity, the
\* caller holds its sleep lock, refcnt >= 1 and valid is set; the device was
\* read, into the payload, exactly when the buffer was not valid.
BreadPost ==
  /\ [](\A t \in Threads :
         pc[t] = "returned" =>
           LET b == loc[t].b
           IN /\ b \in Slots
              /\ Ident(b) = <<loc[t].dev, loc[t].blockno>>
              /\ sleeplock[b] = t
              /\ buf[b].refcnt >= 1
              /\ buf[b].valid
              /\ io[t] = "read" => buf[b].data = disk[Ident(b)])
  /\ [][\A t \in Threads :
         (pc[t] = "bread_valid" /\ pc'[t] = "returned") =>
           LET b == loc[t].b
           IN IF buf[b].valid
              THEN io'[t] = "none" /\ buf'[b].data = buf[b].data
              ELSE io'[t] = "read" /\ buf'[b].data = disk[Ident(b)]]_vars

\* C6 witness: two threads have returned from bread, one after a device read
\* and one with a buffer that was already valid and holds a written payload.
BreadPostWitness ==
  \E t, u \in Threads :
    /\ pc[t] = "returned" /\ io[t] = "read"
    /\ pc[u] = "returned" /\ io[u] = "none" /\ buf[loc[u].b].data # 0

\* The buffers in no chain, in exactly one, in more than one.
ChainsOf(s) == {k \in Buckets : s \in SeqToSet(Chain(k))}

\* Thread t is in the relocation step of bget: it unlinked its champion from
\* another bucket and has not spliced it yet.
Relocating(t) ==
  pc[t] = "bind" /\ loc[t].prev_bucket # hash(loc[t].dev, loc[t].blockno)

\* C7: a scan during which every buffer has refcnt > 0 finds no champion; with
\* no champion bget panics "bget: no buffers" and never goes on to rebind; the
\* steps of the miss path up to the panic leave buffers and chains as they were.
NoBuffers ==
  /\ [](\A t \in Threads :
         (pc[t] \in {"scan", "scanned", "check"} /\ \A s \in Slots : buf[s].refcnt > 0)
           => loc[t].prev_replace_buf = NIL)
  /\ [][\A t \in Threads :
         (pc[t] = "check" /\ loc[t].prev_replace_buf = NIL) =>
           /\ pc'[t] = "check" /\ loc'[t] = loc[t]
           /\ (Check(t) => panicked' = "bget: no buffers")]_vars
  /\ [][\A t \in Threads :
         (\/ pc'[t] # pc[t] /\ pc'[t] \in {"acq_evict", "lookup2", "scan", "scanned", "check"}
          \/ panicked' = "bget: no buffers")
           => UNCHANGED <<buf, next>>]_vars

\* C7 witness: bget has panicked with every buffer referenced.
NoBuffersWitness ==
  /\ panicked = "bget: no buffers"
  /\ \A s \in Slots : buf[s].refcnt > 0
  /\ \E t \in Threads : pc[t] = "check" /\ evictlock = t

\* C8: bwrite or brelse by a thread that does not hold the buffer's sleep lock
\* panics and changes nothing else: no device write, no change of any sleep
\* lock, refcnt or timestamp.
ContractViolation ==
  /\ [][\A t \in Threads, b \in Slots :
         (sleeplock[b] # t /\ (bwrite(t, b) \/ brelse(t, b))) =>
           /\ panicked' \in {"bwrite", "brelse"}
           /\ UNCHANGED <<buf, next, sleeplock, disk, pc, loc>>]_vars
  /\ [][panicked' \in {"bwrite", "brelse"} =>
         UNCHANGED <<buf, next, sleeplock, bucketlock, evictlock, disk, pins>>]_vars

\* C8 witness: bwrite has panicked while another thread holds a buffer whose
\* payload differs from the device's content.
ContractViolationWitness ==
  /\ panicked = "bwrite"
  /\ \E t \in Threads, b \in Slots :
       sleeplock[b] = t /\ pc[t] = "wrote" /\ buf[b].data # disk[Ident(b)]

\* C9: in the fill-and-evict program nothing faults, bread(0,NBUF) rebinds the
\* buffer that carried (0,0), and the following bread(0,0) finds no buffer with
\* that identity and reads the block from the device again.
FillAndEvict ==
  /\ panicked = ""
  /\ (script = 2 * NBUF /\ pc[Me] = "bind") => Ident(loc[Me].b) = <<0, 0>>
  /\ (script = 2 * NBUF + 1 /\ pc[Me] = "lookup1") =>
       \A s \in Slots : Ident(s) # <<0, 0>>
  /\ (script = 2 * NBUF + 1 /\ pc[Me] = "returned") =>
       /\ io[Me] = "read"
       /\ Ident(loc[Me].b) = <<0, 0>>

\* C9 witness: the last bread(0,0) of the program has returned after a device read.
FillAndEvictWitness ==
  /\ script = 2 * NBUF + 1 /\ pc[Me] = "returned" /\ io[Me] = "read"
  /\ \E s \in Slots : Ident(s) = <<0, NBUF>> /\ sleeplock[s] = Me

\* A sequence without repetition.
NoDup(q) == \A i, j \in 1..Len(q) : q[i] = q[j] => i = j

\* C10: no chain holds a buffer twice or runs into a cycle, every buffer is in
\* at most one chain, and in exactly one unless it is the buffer a thread is
\* relocating.
ChainMembership ==
  /\ \A k \in Buckets : NoDup(Chain(k)) /\ Len(Chain(k)) <= NBUF
  /\ \A s \in Slots : Cardinality(ChainsOf(s)) <= 1
  /\ \A s \in Slots :
       (\A t \in Threads : ~(Relocating(t) /\ loc[t].b = s)) =>
         Cardinality(ChainsOf(s)) = 1

\* C10 witness: after relocations one chain holds two buffers, another none, and
\* a thread is relocating no buffer.
ChainMembershipWitness ==
  /\ \E k1, k2 \in Buckets : Len(Chain(k1)) >= 2 /\ Len(Chain(k2)) = 0
  /\ \A t \in Threads : ~Relocating(t)
  /\ \E t \in Threads : pc[t] = "sleep"

\* The threads that hold a reference to buffer s obtained through bget: from the
\* increment (a lookup hit or the rebinding) to the decrement in brelse.
Refs(s) ==
  {t \in Threads :
     \/ pc[t] \in {"sleep", "bread_valid", "returned"} /\ loc[t].b = s
     \/ sleeplock[s] = t
     \/ pc[t] = "brelse_cs" /\ loc[t].b = s}

\* C11: each buffer's refcnt is the number of threads holding a reference from
\* bget plus the number of unmatched bpin calls, it is never negative, and a
\* buffer with refcnt 0 has no holder of its sleep lock.
RefCounting ==
  \A s \in Slots :
    /\ buf[s].refcnt = Cardinality(Refs(s)) + pins[s]
    /\ buf[s].refcnt >= 0
    /\ buf[s].refcnt = 0 => sleeplock[s] = NoThread

\* C11 witness: a buffer is held and pinned by one thread while another thread,
\* after a hit, waits for its sleep lock (refcnt 3); the other buffer is free.
RefCountingWitness ==
  \E s, s2 \in Slots, t, u \in Threads :
    /\ sleeplock[s] = t /\ pins[s] = 1
    /\ pc[u] = "sleep" /\ loc[u].b = s
    /\ buf[s].refcnt = 3
    /\ buf[s2].refcnt = 0 /\ buf[s2].valid

\* C12: a buffer is linked in a chain other than that of bucket hash(identity)
\* only while a thread that holds bcache.lock is in the relocation step of bget
\* on that buffer; links and identities change only in steps of the thread that
\* holds bcache.lock.
HashPlacement ==
  /\ [](\A s \in Slots, k \in Buckets :
         (s \in SeqToSet(Chain(k)) /\ k # hash(buf[s].dev, buf[s].blockno)) =>
           \E t \in Threads : evictlock = t /\ Relocating(t) /\ loc[t].b = s)
  /\ [][(next' # next \/ \E s \in Slots : Ident(s)' # Ident(s)) =>
         \E t \in Threads : evictlock = t /\ pc[t] \in {"check", "bind"} /\ pc'[t] # pc[t]]_vars

\* C13 as stated: every step that takes a buffer's refcnt from positive to 0
\* leaves its timestamp at the current tick, and the timestamp stays as it is for
\* as long as refcnt stays 0.
StampAtEveryZero ==
  [][\A s \in Slots :
       /\ (buf[s].refcnt > 0 /\ buf'[s].refcnt = 0) => buf'[s].timestamp = ticks
       /\ (buf[s].refcnt = 0 /\ buf'[s].refcnt = 0) =>
            buf'[s].timestamp = buf[s].timestamp]_vars

\* C13: a step of brelse that takes refcnt to 0 leaves the timestamp at the
\* current tick; a step of bunpin that takes refcnt to 0 leaves the timestamp as
\* it was; no other step changes a timestamp.
StampAtRelease ==
  [][\A s \in Slots :
       /\ (buf[s].refcnt > 0 /\ buf'[s].refcnt = 0 /\ pins'[s] = pins[s]) =>
            buf'[s].timestamp = ticks
       /\ (buf[s].refcnt > 0 /\ buf'[s].refcnt = 0 /\ pins'[s] < pins[s]) =>
            buf'[s].timestamp = buf[s].timestamp
       /\ buf'[s].timestamp # buf[s].timestamp =>
            /\ buf[s].refcnt = 1 /\ buf'[s].refcnt = 0
            /\ \E t \in Threads :
                 pc[t] = "brelse_cs" /\ loc[t].b = s /\ pc'[t] = "idle"]_vars

\* C13 witness: a free buffer carries a stamp that only a brelse at a tick after
\* the first can have left, and the other buffer, free too, an older one.
StampAtReleaseWitness ==
  \E s, s2 \in Slots :
    /\ buf[s].refcnt = 0 /\ buf[s].timestamp > 0 /\ buf[s].timestamp = ticks
    /\ buf[s2].refcnt = 0 /\ buf[s2].valid /\ buf[s2].timestamp < ticks

\* The bucket locks thread t holds.
BucketLocksOf(t) == {k \in Buckets : bucketlock[k] = t}

\* The lock of the bucket of thread t's champion, if it has one.
ChampionLock(t) ==
  IF loc[t].prev_bucket = NIL THEN {} ELSE {loc[t].prev_bucket}

\* C14: a scanning thread holds at most two bucket locks; between two iterations
\* it holds the lock of its champion's bucket and no other; inside an iteration
\* that lock and the current bucket's; after the loop exactly the lock of the
\* bucket whose chain contains the champion, or none when there is no champion.
ScanFootprint ==
  \A t \in Threads :
    /\ Cardinality(BucketLocksOf(t)) <= 2
    /\ pc[t] = "scan" =>
         /\ BucketLocksOf(t) = ChampionLock(t)
         /\ Cardinality(BucketLocksOf(t)) <= 1
    /\ pc[t] = "scanned" =>
         BucketLocksOf(t) = ChampionLock(t) \cup {loc[t].cur_bucket}
    /\ pc[t] = "check" =>
         IF loc[t].prev_replace_buf = NIL
         THEN BucketLocksOf(t) = {}
         ELSE /\ BucketLocksOf(t) = {loc[t].prev_bucket}
              /\ next[loc[t].prev_replace_buf] \in SeqToSet(Chain(loc[t].prev_bucket))
              /\ buf[next[loc[t].prev_replace_buf]].refcnt = 0
    /\ (pc[t] \in {"scan", "scanned"} /\ loc[t].prev_replace_buf # NIL) =>
         next[loc[t].prev_replace_buf] \in SeqToSet(Chain(loc[t].prev_bucket))

\* C14 witness: inside an iteration a thread holds two bucket locks, its
\* champion's and the current bucket's, and the current chain holds an older
\* free buffer, so that the champion's lock is about to be dropped.
ScanFootprintWitness ==
  \E t \in Threads :
    /\ pc[t] = "scanned" /\ Cardinality(BucketLocksOf(t)) = 2
    /\ \E s \in SeqToSet(Chain(loc[t].cur_bucket)) :
         /\ buf[s].refcnt = 0
         /\ buf[s].timestamp < buf[next[loc[t].prev_replace_buf]].timestamp

\* C15 as stated: a thread in the eviction scan does not hold bcache.lock (the
\* lock is taken only before the second lookup, so a thread that held it in the
\* scan would have held it since that lookup).
EvictLockNotAcross ==
  \A t \in Threads : pc[t] \in {"scan", "scanned", "check"} => evictlock # t

\* C15: a thread on the miss path holds bcache.lock in every state from the
\* second lookup through the scan, the relocation and the rebinding, and in no
\* other state; the lock is taken only before the second lookup and given back
\* only at a hit of that lookup or after the rebinding.
EvictLockAcross ==
  /\ [](\A t \in Threads :
         pc[t] \in {"lookup2", "scan", "scanned", "check", "bind"} <=> evictlock = t)
  /\ [][\A t \in Threads :
         /\ (evictlock # t /\ evictlock' = t) => pc[t] = "acq_evict"
         /\ (evictlock = t /\ evictlock' # t) =>
              pc[t] \in {"lookup2", "bind"} /\ pc'[t] = "sleep"]_vars

\* C15 witness: a thread that missed at both lookups has finished the scan with
\* a champion and still holds bcache.lock, while another thread waits for it.
EvictLockAcrossWitness ==
  \E t, u \in Threads :
    /\ pc[t] = "check" /\ evictlock = t /\ loc[t].prev_replace_buf # NIL
    /\ pc[u] = "acq_evict"

\* C16: a bget that hits at its first lookup takes no lock but the bucket's,
\* which it gives back within the lookup, and then the buffer's sleep lock, and
\* never bcache.lock; a thread waiting for or taking a sleep lock holds no bucket
\* lock and not bcache.lock.
LookupLocks ==
  /\ [](\A t \in Threads :
         /\ pc[t] = "sleep" => (evictlock # t /\ BucketLocksOf(t) = {})
         /\ pc[t] = "lookup1" => (evictlock # t /\ BucketLocksOf(t) = {}))
  /\ [][\A t \in Threads :
         /\ (pc[t] = "lookup1" /\ pc'[t] = "sleep") =>
              /\ bucketlock[hash(loc[t].dev, loc[t].blockno)] = NoThread
              /\ UNCHANGED <<bucketlock, evictlock, sleeplock>>
         /\ (pc[t] = "sleep" /\ pc'[t] # "sleep") =>
              /\ sleeplock' = [sleeplock EXCEPT ![loc[t].b] = t]
              /\ UNCHANGED <<bucketlock, evictlock>>]_vars

\* C16 witness: a thread that hit (refcnt went to 2) waits for the sleep lock
\* another thread holds, and no spinlock is held by anyone.
LookupLocksWitness ==
  \E t, u \in Threads :
    /\ t # u
    /\ pc[t] = "sleep" /\ sleeplock[loc[t].b] = u
    /\ buf[loc[t].b].refcnt = 2
    /\ evictlock = NoThread /\ \A k \in Buckets : bucketlock[k] = NoThread

\* The position of buffer s in scan order: its bucket's index, then its place in
\* that bucket's chain.
ScanPos(s) ==
  LET k == CHOOSE k \in Buckets : s \in SeqToSet(Chain(k))
      c == Chain(k)
  IN k * (NBUF + 1) + (CHOOSE i \in 1..Len(c) : c[i] = s)

\* C17: when the scan has ended, every other free buffer with the champion's
\* timestamp (and not freed behind the scan) comes later in scan order than the
\* champion; a scan step replaces the champion only by a buffer with a strictly
\* smaller timestamp.
TieBreak ==
  /\ [](\A t \in Threads :
         (pc[t] = "check" /\ loc[t].prev_replace_buf # NIL) =>
           LET b == next[loc[t].prev_replace_buf]
           IN \A s \in Slots \ (late \cup {b}) :
                (buf[s].refcnt = 0 /\ buf[s].timestamp = buf[b].timestamp) =>
                  ScanPos(b) < ScanPos(s))
  /\ [][\A t \in Threads :
         (/\ pc[t] = "scanned" /\ loc[t].prev_replace_buf # NIL
          /\ loc'[t].prev_replace_buf # loc[t].prev_replace_buf) =>
           buf[next[loc'[t].prev_replace_buf]].timestamp
             < buf[next[loc[t].prev_replace_buf]].timestamp]_vars

\* C17 witness: the scan has ended with a champion, and a buffer released with
\* the same timestamp, free and not freed behind the scan, was passed over.
TieBreakWitness ==
  \E t \in Threads, s \in Slots :
    /\ pc[t] = "check" /\ loc[t].prev_replace_buf # NIL
    /\ s # next[loc[t].prev_replace_buf] /\ s \notin late
    /\ buf[s].refcnt = 0 /\ buf[s].valid
    /\ buf[next[loc[t].prev_replace_buf]].valid
    /\ buf[s].timestamp = buf[next[loc[t].prev_replace_buf]].timestamp

\* The spinlock the next step of thread t has to take: a bucket's index,
\* NBUCKET for bcache.lock, NIL when the step takes none.
WaitLock(t) ==
  CASE pc[t] \in {"lookup1", "lookup2"} -> hash(loc[t].dev, loc[t].blockno)
    [] pc[t] = "acq_evict" -> NBUCKET
    [] pc[t] = "scan" -> loc[t].cur_bucket
    [] pc[t] = "bind" ->
         IF loc[t].prev_bucket # hash(loc[t].dev, loc[t].blockno)
         THEN hash(loc[t].dev, loc[t].blockno) ELSE NIL
    [] pc[t] \in {"brelse_cs", "bpin_cs", "bunpin_cs"} ->
         hash(buf[loc[t].b].dev, buf[loc[t].b].blockno)
    [] OTHER -> NIL

\* The thread that holds the spinlock thread t waits for, or NoThread.
Blocker(t) ==
  LET l == WaitLock(t)
  IN IF l = NIL THEN NoThread
     ELSE IF l = NBUCKET THEN evictlock ELSE bucketlock[l]

PanicOnlyWhenAllBusy ==
  panicked = "bget: no buffers" => \A s \in Slots : buf[s].refcnt > 0

\* C20: every buffer with refcnt > 0 is in the chain of bucket hash(identity);
\* a step that changes a buffer's refcnt or timestamp is made under the lock of
\* that bucket, whose chain contains the buffer: the lock is free for the step to
\* take, or the thread rebinding the buffer holds it already.
ReferencedInOwnChain ==
  /\ [](\A s \in Slots :
         buf[s].refcnt > 0 => s \in SeqToSet(Chain(hash(buf[s].dev, buf[s].blockno))))
  /\ [][\A s \in Slots :
         (buf'[s].refcnt # buf[s].refcnt \/ buf'[s].timestamp # buf[s].timestamp) =>
           \E k \in Buckets :
             /\ k = hash(buf'[s].dev, buf'[s].blockno)
             /\ s \in SeqToSet(Chain(k))'
             /\ \/ bucketlock[k] = NoThread
                \/ \E t \in Threads :
                     bucketlock[k] = t /\ pc[t] = "bind" /\ loc[t].b = s]_vars

\* C20 witness: a thread in brelse is about to drop its reference to a buffer
\* that bget has moved to the bucket of its identity, away from the bucket binit
\* put it in.
ReferencedInOwnChainWitness ==
  \E t \in Threads, s \in Slots :
    /\ pc[t] = "brelse_cs" /\ loc[t].b = s /\ buf[s].refcnt > 0
    /\ hash(buf[s].dev, buf[s].blockno) # s % NBUCKET
    /\ s \in SeqToSet(Chain(hash(buf[s].dev, buf[s].blockno)))

====
